---- MODULE Spec2Model ----
(***************************************************************************)
(* Model of backend/server.py: the currency exchange server.  The store    *)
(* holds three tables (Currency, History, User); every HTTP handler is one *)
(* action that reads the committed tables, works on its session copy and   *)
(* commits (or abandons) it.  Amounts are fixed-point numbers counted in   *)
(* thousandths (1000 stands for 1.0).                                      *)
(***************************************************************************)
EXTENDS Integers, FiniteSets, Sequences, TLC

VARIABLES currencies, history, users, now, served, request, response,
          answer, assigned, inflight, base, batch

vars == <<currencies, history, users, now, served, request, response,
          answer, assigned, inflight, base, batch>>

(* ------------------------------ bounds --------------------------------- *)
\* the clock takes the values 0..MaxTime; a run serves at most MaxRequests
\* requests
MaxTime == 1
MaxRequests == 3
\* threads of the server that serve requests at the same time
NumWorkers == 2

Unit == 1000

(* --------------------------- input domains ----------------------------- *)
Codes == {"SOM", "USD", "EUR"}
OperationTypes == {"Purchase", "Sale", "Transfer"}
ExchangeKeys == {"currency_code", "operation_type", "rate", "quantity", "total"}

Max(S) == CHOOSE x \in S : \A y \in S : y <= x

\* SQLite INTEGER PRIMARY KEY (no AUTOINCREMENT): one more than the largest
\* rowid present, 1 on an empty table.
NextId(rows) == IF rows = {} THEN 1 ELSE Max({r.id : r \in rows}) + 1

\* a handler that changes the store answers with a message or the stored row;
\* the data a read handler answers with is kept apart in answer
NoAnswer == <<>>

NoEntry ==
  [id |-> 0, currency_code |-> "", operation_type |-> "", rate |-> 0,
   quantity |-> 0, total |-> 0, created_at |-> 0]

NoRequest ==
  [has |-> {}, bad |-> {}, currency_code |-> "", operation_type |-> "",
   rate |-> 0, quantity |-> 0, total |-> 0]

\* jsonify(...) with its status code; transaction is filled by a successful
\* exchange only.
Reply(op, status, error, transaction) ==
  [op |-> op, status |-> status, error |-> error, transaction |-> transaction]

Result(db, op, status, error) ==
  [db |-> db, resp |-> Reply(op, status, error, NoEntry)]

(* ------------------------------ models --------------------------------- *)
Currency(id, code, quantity, updated_at, buy, sell) ==
  [id |-> id, code |-> code, quantity |-> quantity, updated_at |-> updated_at,
   default_buy_rate |-> buy, default_sell_rate |-> sell]

History(id, code, op, rate, quantity, total, created_at) ==
  [id |-> id, currency_code |-> code, operation_type |-> op, rate |-> rate,
   quantity |-> quantity, total |-> total, created_at |-> created_at]

User(id, username, password, role) ==
  [id |-> id, username |-> username, password |-> password, role |-> role]

\* Currency.query.filter_by(code=code): code is unique, so at most one row.
ByCode(rows, code) == {c \in rows : c.code = code}
ById(rows, id) == {r \in rows : r.id = id}
First(rows) == CHOOSE r \in rows : \A s \in rows : r.id <= s.id

AddQuantity_everywhere(rows, id, delta) ==
  {[c EXCEPT !.quantity = @ + delta] : c \in rows}

\* obj.quantity += delta on the session object with primary key id
AddQuantity(rows, id, delta) ==
  {IF c.id = id THEN [c EXCEPT !.quantity = @ + delta] ELSE c : c \in rows}

(* ------------------------- round(x, 2) --------------------------------- *)
Round2_truncated(rate, quantity) == 10 * ((rate * quantity) \div 10000)

\* rate and quantity are in thousandths, so rate * quantity is in millionths;
\* the result is in thousandths again and a multiple of 10.  Ties go to the
\* even hundredth; on floats a tie falls to the side of the binary value of
\* the product, and no product of the request sets below is a tie.
Round2(rate, quantity) ==
  LET p == rate * quantity
      c == p \div 10000
      r == p % 10000
  IN  10 * (IF r > 5000 THEN c + 1
            ELSE IF r < 5000 THEN c
            ELSE IF c % 2 = 0 THEN c ELSE c + 1)

(* ------------------------ database initialisation ---------------------- *)
\* module-level block run at every process start
initialise(db, t) ==
  LET som == ByCode(db.currencies, "SOM")
      cur == IF som = {}
             THEN db.currencies \cup
                    {Currency(NextId(db.currencies), "SOM", 0, t, 0, 0)}
             ELSE {IF c.code = "SOM" THEN [c EXCEPT !.quantity = 0] ELSE c
                     : c \in db.currencies}
      usr == IF {u \in db.users : u.username = "a"} = {}
             THEN db.users \cup {User(NextId(db.users), "a", "a", "admin")}
             ELSE db.users
  IN  [currencies |-> cur, history |-> db.history, users |-> usr]

EmptyDb == [currencies |-> {}, history |-> {}, users |-> {}]

(* ------------------------------ exchange ------------------------------- *)
\* the checks made before any row is read; "" when the request passes
validate(data) ==
  IF ~(ExchangeKeys \subseteq data.has) THEN "Required fields missing"
  ELSE IF data.bad \cap {"rate", "quantity", "total"} # {} THEN "ValueError"
  ELSE IF data.rate <= 0 \/ data.quantity <= 0 \/ data.total <= 0
  THEN "Invalid numbers"
  ELSE IF data.total # Round2(data.rate, data.quantity)
  THEN "Total does not match rate * quantity"
  ELSE ""

\* float() raising ValueError is not caught: the framework answers 500
validate_status(error) == IF error = "ValueError" THEN 500 ELSE 400

\* som.quantity -= total; currency.quantity += quantity (one object when the
\* named currency is SOM)
purchase_swapped(rows, som, currency, data) ==
  AddQuantity(AddQuantity(rows, som.id, 0 - data.quantity),
              currency.id, data.total)

purchase(rows, som, currency, data) ==
  AddQuantity(AddQuantity(rows, som.id, 0 - data.total),
              currency.id, data.quantity)

\* currency.quantity -= quantity; som.quantity += total
sale_credits_foreign(rows, som, currency, data) ==
  AddQuantity(AddQuantity(rows, currency.id, 0 - data.quantity),
              currency.id, data.total)

sale(rows, som, currency, data) ==
  AddQuantity(AddQuantity(rows, currency.id, 0 - data.quantity),
              som.id, data.total)

Traded(status, error, rows) == [status |-> status, error |-> error, rows |-> rows]

trade_compares_quantity(rows, som, currency, data) ==
  IF data.operation_type = "Purchase"
  THEN IF som.quantity < data.quantity
       THEN Traded(400, "Not enough SOM for purchase", rows)
       ELSE Traded(200, "", purchase(rows, som, currency, data))
  ELSE IF data.operation_type = "Sale"
  THEN IF currency.quantity < data.quantity
       THEN Traded(400, "Not enough currency for sale", rows)
       ELSE Traded(200, "", sale(rows, som, currency, data))
  ELSE Traded(400, "Invalid operation type", rows)

\* the branch on operation_type: the session's currency rows afterwards
trade(rows, som, currency, data) ==
  IF data.operation_type = "Purchase"
  THEN IF som.quantity < data.total
       THEN Traded(400, "Not enough SOM for purchase", rows)
       ELSE Traded(200, "", purchase(rows, som, currency, data))
  ELSE IF data.operation_type = "Sale"
  THEN IF currency.quantity < data.quantity
       THEN Traded(400, "Not enough currency for sale", rows)
       ELSE Traded(200, "", sale(rows, som, currency, data))
  ELSE Traded(400, "Invalid operation type", rows)

\* db.session.commit(): the whole session is written, or the except branch
\* rolls all of it back
commit_keeps_balances(db, session, commit_fails) ==
  IF commit_fails THEN [db EXCEPT !.currencies = session.currencies] ELSE session

commit(db, session, commit_fails) ==
  IF commit_fails THEN db ELSE session

exchange_checks_total_late(db, t, data, commit_fails) ==
  LET error == IF ~(ExchangeKeys \subseteq data.has) THEN "Required fields missing"
               ELSE IF data.bad \cap {"rate", "quantity", "total"} # {}
               THEN "ValueError"
               ELSE IF data.rate <= 0 \/ data.quantity <= 0 \/ data.total <= 0
               THEN "Invalid numbers"
               ELSE ""
      found == ByCode(db.currencies, data.currency_code)
      soms == ByCode(db.currencies, "SOM")
      currency == First(found)
      som == First(soms)
      traded == trade(db.currencies, som, currency, data)
      new_entry == History(NextId(db.history), data.currency_code,
                           data.operation_type, data.rate, data.quantity,
                           data.total, t)
      session == [db EXCEPT !.currencies = traded.rows,
                            !.history = @ \cup {new_entry}]
  IN  IF error # ""
      THEN Result(db, "exchange", validate_status(error), error)
      ELSE IF found = {}
      THEN Result(db, "exchange", 404, "Currency not found")
      ELSE IF soms = {}
      THEN Result(db, "exchange", 404, "SOM currency not found")
      ELSE IF traded.status # 200
      THEN Result(db, "exchange", traded.status, traded.error)
      ELSE IF commit_fails
      THEN Result(commit(db, session, TRUE), "exchange", 500, "commit failed")
      ELSE IF data.total # Round2(data.rate, data.quantity)
      THEN Result(commit(db, session, FALSE), "exchange", 400,
                  "Total does not match rate * quantity")
      ELSE [db |-> commit(db, session, FALSE),
            resp |-> Reply("exchange", 200, "", new_entry)]

exchange(db, t, data, commit_fails) ==
  LET error == validate(data)
      found == ByCode(db.currencies, data.currency_code)
      soms == ByCode(db.currencies, "SOM")
      currency == First(found)
      som == First(soms)
      traded == trade(db.currencies, som, currency, data)
      new_entry == History(NextId(db.history), data.currency_code,
                           data.operation_type, data.rate, data.quantity,
                           data.total, t)
      session == [db EXCEPT !.currencies = traded.rows,
                            !.history = @ \cup {new_entry}]
  IN  IF error # ""
      THEN Result(db, "exchange", validate_status(error), error)
      ELSE IF found = {}
      THEN Result(db, "exchange", 404, "Currency not found")
      ELSE IF soms = {}
      THEN Result(db, "exchange", 404, "SOM currency not found")
      ELSE IF traded.status # 200
      THEN Result(db, "exchange", traded.status, traded.error)
      ELSE IF commit_fails
      THEN Result(commit(db, session, TRUE), "exchange", 500, "commit failed")
      ELSE [db |-> commit(db, session, FALSE),
            resp |-> Reply("exchange", 200, "", new_entry)]

(* --------------------------- currency endpoints ------------------------ *)
update_currency_quantity(db, t, code, data) ==
  LET found == ByCode(db.currencies, code)
      currency == First(found)
  IN  IF found = {}
      THEN Result(db, "update_currency_quantity", 404, "Currency not found")
      ELSE IF "quantity" \in data.has
      THEN Result([db EXCEPT !.currencies =
                     (@ \ {currency}) \cup
                     {[currency EXCEPT !.quantity = data.quantity,
                                       !.updated_at = t]}],
                  "update_currency_quantity", 200, "")
      ELSE Result(db, "update_currency_quantity", 400, "Quantity not provided")

create_currency(db, t, data) ==
  LET new_currency ==
        Currency(NextId(db.currencies), data.code,
                 IF "quantity" \in data.has THEN data.quantity ELSE 0,
                 t,
                 IF "default_buy_rate" \in data.has THEN data.default_buy_rate ELSE 0,
                 IF "default_sell_rate" \in data.has THEN data.default_sell_rate ELSE 0)
  IN  IF "code" \notin data.has
      THEN Result(db, "create_currency", 400, "Invalid data")
      ELSE IF ByCode(db.currencies, data.code) # {}
      THEN Result(db, "create_currency", 409, "Currency already exists")
      ELSE Result([db EXCEPT !.currencies = @ \cup {new_currency}],
                  "create_currency", 201, "")

update_currency(db, t, id, data) ==
  LET found == ById(db.currencies, id)
      currency == First(found)
      updated ==
        [currency EXCEPT
           !.code = IF "code" \in data.has THEN data.code ELSE @,
           !.quantity = IF "quantity" \in data.has THEN data.quantity ELSE @,
           !.default_buy_rate =
              IF "default_buy_rate" \in data.has THEN data.default_buy_rate ELSE @,
           !.default_sell_rate =
              IF "default_sell_rate" \in data.has THEN data.default_sell_rate ELSE @,
           !.updated_at = t]
  IN  IF found = {}
      THEN Result(db, "update_currency", 404, "Currency not found")
      \* code is UNIQUE: the flush at commit raises IntegrityError, nothing
      \* is written
      ELSE IF ByCode(db.currencies \ {currency}, updated.code) # {}
      THEN Result(db, "update_currency", 500, "IntegrityError")
      ELSE Result([db EXCEPT !.currencies = (@ \ {currency}) \cup {updated}],
                  "update_currency", 200, "")

delete_currency_cascades(db, id) ==
  IF ById(db.currencies, id) = {}
  THEN Result(db, "delete_currency", 404, "Currency not found")
  ELSE Result([db EXCEPT !.currencies = @ \ ById(@, id),
                         !.history = {h \in @ : h.currency_code #
                                        First(ById(db.currencies, id)).code}],
              "delete_currency", 200, "")

delete_currency(db, id) ==
  IF ById(db.currencies, id) = {}
  THEN Result(db, "delete_currency", 404, "Currency not found")
  ELSE Result([db EXCEPT !.currencies = @ \ ById(@, id)],
              "delete_currency", 200, "")

(* --------------------------- history endpoints ------------------------- *)
create_history(db, t, data) ==
  LET new_entry == History(NextId(db.history), data.currency_code,
                           data.operation_type, data.rate, data.quantity,
                           data.total, t)
  IN  IF ~(ExchangeKeys \subseteq data.has)
      THEN Result(db, "create_history", 400, "Invalid data")
      ELSE Result([db EXCEPT !.history = @ \cup {new_entry}],
                  "create_history", 201, "")

update_history(db, id, data) ==
  LET found == ById(db.history, id)
      entry == First(found)
      updated ==
        [entry EXCEPT
           !.currency_code = IF "currency_code" \in data.has THEN data.currency_code ELSE @,
           !.operation_type = IF "operation_type" \in data.has THEN data.operation_type ELSE @,
           !.rate = IF "rate" \in data.has THEN data.rate ELSE @,
           !.quantity = IF "quantity" \in data.has THEN data.quantity ELSE @,
           !.total = IF "total" \in data.has THEN data.total ELSE @,
           !.created_at = IF "created_at" \in data.has THEN data.created_at ELSE @]
  IN  IF found = {}
      THEN Result(db, "update_history", 404, "History entry not found")
      \* fromisoformat raised ValueError: the handler returns before commit
      ELSE IF "created_at" \in data.has /\ "created_at" \in data.bad
      THEN Result(db, "update_history", 400, "Invalid date format")
      ELSE Result([db EXCEPT !.history = (@ \ {entry}) \cup {updated}],
                  "update_history", 200, "")

delete_history(db, id) ==
  IF ById(db.history, id) = {}
  THEN Result(db, "delete_history", 404, "History entry not found")
  ELSE Result([db EXCEPT !.history = @ \ ById(@, id)],
              "delete_history", 200, "")

(* ----------------------------- user endpoints -------------------------- *)
ByUsername(rows, username) == {u \in rows : u.username = username}

create_user(db, data) ==
  LET new_user == User(NextId(db.users), data.username, data.password,
                       IF "role" \in data.has THEN data.role ELSE "user")
  IN  IF ~({"username", "password"} \subseteq data.has)
      THEN Result(db, "create_user", 400, "Username and password required")
      ELSE IF ByUsername(db.users, data.username) # {}
      THEN Result(db, "create_user", 409, "Username already exists")
      ELSE Result([db EXCEPT !.users = @ \cup {new_user}], "create_user", 201, "")

update_user(db, id, data) ==
  LET found == ById(db.users, id)
      user == First(found)
      updated ==
        [user EXCEPT
           !.username = IF "username" \in data.has THEN data.username ELSE @,
           !.password = IF "password" \in data.has THEN data.password ELSE @,
           !.role = IF "role" \in data.has THEN data.role ELSE @]
  IN  IF found = {}
      THEN Result(db, "update_user", 404, "User not found")
      ELSE IF /\ "username" \in data.has
              /\ data.username # user.username
              /\ ByUsername(db.users, data.username) # {}
      THEN Result(db, "update_user", 409, "Username already exists")
      ELSE Result([db EXCEPT !.users = (@ \ {user}) \cup {updated}],
                  "update_user", 200, "")

delete_user(db, id) ==
  IF ById(db.users, id) = {}
  THEN Result(db, "delete_user", 404, "User not found")
  ELSE Result([db EXCEPT !.users = @ \ ById(@, id)], "delete_user", 200, "")

(* ----------------------------- system reset ---------------------------- *)
\* the deletions run only when SOM was found
reset_data_skips_deletes(db, t, commit_fails) ==
  LET soms == ByCode(db.currencies, "SOM")
      wiped == IF soms # {}
               THEN [currencies |-> {[c EXCEPT !.quantity = 0] : c \in soms},
                     history |-> {},
                     users |-> ByUsername(db.users, "a")]
               ELSE [db EXCEPT !.currencies =
                       @ \cup {Currency(NextId(db.currencies), "SOM", 0, t, 0, 0)}]
  IN  IF commit_fails
      THEN Result(commit(db, wiped, TRUE), "reset_data", 500, "commit failed")
      ELSE Result(commit(db, wiped, FALSE), "reset_data", 200, "")

reset_data(db, t, commit_fails) ==
  LET soms == ByCode(db.currencies, "SOM")
      som == IF soms # {}
             THEN {[c EXCEPT !.quantity = 0] : c \in soms}
             ELSE {Currency(NextId(db.currencies), "SOM", 0, t, 0, 0)}
      wiped == [currencies |-> som,
                history |-> {},
                users |-> ByUsername(db.users, "a")]
  IN  IF commit_fails
      THEN Result(commit(db, wiped, TRUE), "reset_data", 500, "commit failed")
      ELSE Result(commit(db, wiped, FALSE), "reset_data", 200, "")

(* ---------------------------- history queries -------------------------- *)
\* the query string of a GET request: has holds the date bounds that are
\* present and not empty, bad those that datetime.fromisoformat rejects; an
\* absent or empty currency_code / operation_type is "", an absent limit 0
NoQuery ==
  [has |-> {}, bad |-> {}, from_date |-> 0, to_date |-> 0,
   currency_code |-> "", operation_type |-> "", limit |-> 0]

Answered(status, error, data) == [status |-> status, error |-> error, data |-> data]

\* ORDER BY created_at DESC; rows of equal created_at come in rowid order
RECURSIVE order_by_created_at_desc(_)
order_by_created_at_desc(rows) ==
  IF rows = {} THEN <<>>
  ELSE LET first == CHOOSE r \in rows : \A o \in rows :
                      \/ r.created_at > o.created_at
                      \/ r.created_at = o.created_at /\ r.id <= o.id
       IN <<first>> \o order_by_created_at_desc(rows \ {first})

\* .limit(n)
Limit(rows, n) == SubSeq(rows, 1, IF n < Len(rows) THEN n ELSE Len(rows))

filter_by(rows, currency_code, operation_type) ==
  {h \in rows : /\ currency_code # "" => h.currency_code = currency_code
                /\ operation_type # "" => h.operation_type = operation_type}

get_history(db, args) ==
  LET entries == order_by_created_at_desc(
                   filter_by(db.history, args.currency_code, args.operation_type))
  IN Answered(200, "", IF args.limit # 0 THEN Limit(entries, args.limit) ELSE entries)

\* the guard every date-ranged handler starts with
date_range(args) ==
  IF ~ ({"from_date", "to_date"} \subseteq args.has)
  THEN "Both from_date and to_date are required"
  ELSE IF args.bad \cap {"from_date", "to_date"} # {}
  THEN "Invalid date format"
  ELSE ""

between_exclusive(rows, from_date, to_date) ==
  {h \in rows : from_date <= h.created_at /\ h.created_at < to_date}

\* History.created_at >= from_date_obj, History.created_at <= to_date_obj
between(rows, from_date, to_date) ==
  {h \in rows : from_date <= h.created_at /\ h.created_at <= to_date}

filter_history(db, args) ==
  IF date_range(args) # "" THEN Answered(400, date_range(args), <<>>)
  ELSE Answered(200, "",
         order_by_created_at_desc(
           filter_by(between(db.history, args.from_date, args.to_date),
                     args.currency_code, args.operation_type)))

(* ------------------------------ analytics ------------------------------ *)
\* created_at.strftime('%Y-%m-%d'): the clock of the model ticks once a day
Day(t) == t

RECURSIVE sum(_, _)
sum(rows, field) ==
  IF rows = {} THEN 0
  ELSE LET r == CHOOSE x \in rows : TRUE IN r[field] + sum(rows \ {r}, field)

RECURSIVE ascending(_)
ascending(S) ==
  IF S = {} THEN <<>>
  ELSE LET least == CHOOSE x \in S : \A y \in S : x <= y
       IN <<least>> \o ascending(S \ {least})

\* a query of a read handler may raise (query_fails): the handler then ends
\* with the exception
Raised == Answered(500, "query failed", <<>>)

\* profit is entry.total * 0.1 summed: it is counted in ten-thousandths, the
\* other amounts in thousandths
daily_data(db, args, query_fails) ==
  IF date_range(args) # "" THEN Answered(400, date_range(args), <<>>)
  ELSE IF query_fails THEN Raised
  ELSE
    LET inside == between(db.history, args.from_date, args.to_date)
        entries == IF args.currency_code # "" /\ args.currency_code # "ALL"
                   THEN {h \in inside : h.currency_code = args.currency_code}
                   ELSE inside
        days == ascending({Day(h.created_at) : h \in entries})
        of(day, op) == {h \in entries : Day(h.created_at) = day /\ h.operation_type = op}
    IN Answered(200, "",
         [i \in 1..Len(days) |->
            [day |-> days[i],
             purchases |-> sum(of(days[i], "Purchase"), "total"),
             sales |-> sum(of(days[i], "Sale"), "total"),
             profit |-> sum(of(days[i], "Sale"), "total")]])

\* the two lists of the pie chart, one element per currency code
by_currency(entries, op) ==
  {[currency_code |-> code,
    total_value |-> sum({h \in entries : h.currency_code = code
                                         /\ h.operation_type = op}, "total")] :
     code \in {h.currency_code : h \in {e \in entries : e.operation_type = op}}}

pie_chart_data(db, args, query_fails) ==
  IF date_range(args) # "" THEN Answered(400, date_range(args), <<>>)
  ELSE IF query_fails THEN Raised
  ELSE
    LET entries == {h \in between(db.history, args.from_date, args.to_date) :
                      h.currency_code # "SOM"}
    IN Answered(200, "", [purchases |-> by_currency(entries, "Purchase"),
                          sales |-> by_currency(entries, "Sale")])

\* the entries one row of the ranking is computed from
traded(db, code, op, args) ==
  {h \in between(db.history, args.from_date, args.to_date) :
     h.currency_code = code /\ h.operation_type = op}

\* a quotient of amounts is a rate, kept to the thousandth
average(amount, quantity) == IF quantity > 0 THEN (amount * Unit) \div quantity ELSE 0

profit_row(db, code, args) ==
  LET purchases == traded(db, code, "Purchase", args)
      sales == traded(db, code, "Sale", args)
      avg_purchase_rate == average(sum(purchases, "total"), sum(purchases, "quantity"))
      avg_sale_rate == average(sum(sales, "total"), sum(sales, "quantity"))
  IN [currency_code |-> code,
      profit |-> ((avg_sale_rate - avg_purchase_rate) * sum(sales, "quantity")) \div Unit,
      avg_purchase_rate |-> avg_purchase_rate,
      avg_sale_rate |-> avg_sale_rate,
      total_purchased |-> sum(purchases, "quantity"),
      total_sold |-> sum(sales, "quantity")]

\* result.sort(key=profit, reverse=True): a stable sort, rows of equal profit
\* stay in the order of the currency query (rowid)
RECURSIVE sort_by_profit(_)
sort_by_profit(ranked) ==
  IF ranked = {} THEN <<>>
  ELSE LET first == CHOOSE r \in ranked : \A o \in ranked :
                      \/ r.row.profit > o.row.profit
                      \/ r.row.profit = o.row.profit /\ r.id <= o.id
       IN <<first.row>> \o sort_by_profit(ranked \ {first})

\* the currencies the ranking goes through
ranked_currencies(db) ==
  {[id |-> c.id, code |-> c.code] : c \in {x \in db.currencies : x.code # "SOM"}}

profitable_currencies(db, args, query_fails) ==
  IF date_range(args) # "" THEN Answered(400, date_range(args), <<>>)
  ELSE IF query_fails THEN Raised
  ELSE
    LET listed == {c \in ranked_currencies(db) :
                     \/ traded(db, c.code, "Purchase", args) # {}
                     \/ traded(db, c.code, "Sale", args) # {}}
    IN Answered(200, "",
         sort_by_profit({[id |-> c.id, row |-> profit_row(db, c.code, args)] :
                           c \in listed}))

Slots == {"pie_chart_data", "profitable_currencies", "daily_data"}

EmptyBatch == [pieChartData |-> [purchases |-> {}, sales |-> {}],
               profitData |-> <<>>, barChartData |-> <<>>]

\* fails: the sub-handlers whose query raises.  A sub-handler that answers an
\* error returns a (response, status) tuple, which has neither .json nor
\* .data: the AttributeError ends in the same except branch as an exception
\* of the sub-handler.
batch_analytics_data(db, args, fails) ==
  IF ~ ({"from_date", "to_date"} \subseteq args.has)
  THEN Answered(400, "Both from_date and to_date are required", <<>>)
  ELSE
    LET pie_chart_response == pie_chart_data(db, args, "pie_chart_data" \in fails)
        profit_response == profitable_currencies(db, args, "profitable_currencies" \in fails)
        bar_chart_response == daily_data(db, args, "daily_data" \in fails)
    IN IF /\ pie_chart_response.status = 200
          /\ profit_response.status = 200
          /\ bar_chart_response.status = 200
       THEN Answered(200, "", [pieChartData |-> pie_chart_response.data,
                               profitData |-> profit_response.data,
                               barChartData |-> bar_chart_response.data])
       ELSE Answered(200, "", EmptyBatch)

(* ------------------------------ requests ------------------------------- *)
ExchangeRequest(code, op, rate, quantity, total) ==
  [has |-> ExchangeKeys, bad |-> {}, currency_code |-> code,
   operation_type |-> op, rate |-> rate, quantity |-> quantity, total |-> total]

\* well-formed requests, then requests that differ from a well-formed one in
\* one field
ExchangeRequests ==
  {ExchangeRequest(c, o, 2000, Unit, 2 * Unit) :
     c \in Codes, o \in {"Purchase", "Sale"}}
  \cup {ExchangeRequest("USD", o, 1999, Unit, 2 * Unit) : o \in OperationTypes}
  \cup {ExchangeRequest("USD", "Purchase", 2000, Unit, 1999),
        ExchangeRequest("USD", "Purchase", 0, Unit, 2 * Unit),
        ExchangeRequest("USD", "Purchase", 2000, 0, 2 * Unit),
        ExchangeRequest("USD", "Sale", 2000, Unit, 0),
        [ExchangeRequest("USD", "Purchase", 2000, Unit, 2 * Unit)
           EXCEPT !.has = ExchangeKeys \ {"total"}],
        [ExchangeRequest("USD", "Purchase", 2000, Unit, 2 * Unit)
           EXCEPT !.bad = {"rate"}]}

\* the exchanges the concurrent specification draws from
ConcurrentExchanges ==
  {ExchangeRequest("USD", "Purchase", 2000, Unit, 2 * Unit),
   ExchangeRequest("EUR", "Sale", 2000, Unit, 2 * Unit)}

QuantityPayloads ==
  {[NoRequest EXCEPT !.has = {"quantity"}, !.quantity = q] :
     q \in {0 - Unit, 2 * Unit}}
  \cup {NoRequest}

NoCurrencyPayload ==
  [has |-> {}, code |-> "", quantity |-> 0, default_buy_rate |-> 0,
   default_sell_rate |-> 0]

CreateCurrencyPayloads ==
  {[NoCurrencyPayload EXCEPT !.has = {"code"}, !.code = c] : c \in {"SOM", "USD"}}
  \cup {[NoCurrencyPayload EXCEPT !.has = {"code", "quantity"}, !.code = "USD",
                                  !.quantity = 0 - Unit],
        [has |-> {"code", "quantity", "default_buy_rate", "default_sell_rate"},
         code |-> "EUR", quantity |-> 2 * Unit, default_buy_rate |-> 1999,
         default_sell_rate |-> 2000],
        NoCurrencyPayload}

UpdateCurrencyPayloads ==
  {[NoCurrencyPayload EXCEPT !.has = {"code"}, !.code = c] : c \in {"SOM", "USD"}}
  \cup {[NoCurrencyPayload EXCEPT !.has = {"quantity"}, !.quantity = 0 - Unit],
        [has |-> {"quantity", "default_buy_rate", "default_sell_rate"},
         code |-> "", quantity |-> Unit, default_buy_rate |-> 1999,
         default_sell_rate |-> 2000]}

NoHistoryPayload ==
  [has |-> {}, bad |-> {}, currency_code |-> "", operation_type |-> "",
   rate |-> 0, quantity |-> 0, total |-> 0, created_at |-> 0]

HistoryPayload(code, op, rate, quantity, total) ==
  [NoHistoryPayload EXCEPT !.has = ExchangeKeys, !.currency_code = code,
                           !.operation_type = op, !.rate = rate,
                           !.quantity = quantity, !.total = total]

CreateHistoryPayloads ==
  {HistoryPayload("USD", "Sale", 2000, Unit, 2 * Unit),
   HistoryPayload("EUR", "Transfer", 0, 0 - Unit, 1999),
   [HistoryPayload("USD", "Sale", 2000, Unit, 2 * Unit)
      EXCEPT !.has = ExchangeKeys \ {"rate"}]}

UpdateHistoryPayloads ==
  {[NoHistoryPayload EXCEPT !.has = {"currency_code", "total"},
                            !.currency_code = "EUR", !.total = 0],
   [NoHistoryPayload EXCEPT !.has = {"rate", "created_at"}, !.rate = 1999,
                            !.bad = {"created_at"}],
   [NoHistoryPayload EXCEPT !.has = {"created_at"}, !.created_at = 0]}

NoUserPayload == [has |-> {}, username |-> "", password |-> "", role |-> ""]

CreateUserPayloads ==
  {[NoUserPayload EXCEPT !.has = {"username", "password"}, !.username = n,
                         !.password = "x"] : n \in {"a", "b"}}
  \cup {[NoUserPayload EXCEPT !.has = {"username"}, !.username = "b"]}

UpdateUserPayloads ==
  {[NoUserPayload EXCEPT !.has = {"username"}, !.username = n] : n \in {"a", "b"}}
  \cup {[NoUserPayload EXCEPT !.has = {"password", "role"}, !.password = "x",
                              !.role = "user"]}

\* query strings
Window(from_date, to_date) ==
  [NoQuery EXCEPT !.has = {"from_date", "to_date"}, !.from_date = from_date,
                  !.to_date = to_date]

Windows == {Window(0, MaxTime), Window(MaxTime, MaxTime), Window(0, 0)}

\* a date bound absent, empty or not an ISO date
MalformedWindows ==
  {NoQuery,
   [Window(0, MaxTime) EXCEPT !.has = {"from_date"}],
   [Window(0, MaxTime) EXCEPT !.bad = {"to_date"}],
   [Window(0, MaxTime) EXCEPT !.bad = {"from_date", "to_date"}]}

HistoryQueries ==
  {[NoQuery EXCEPT !.currency_code = c, !.operation_type = o, !.limit = l] :
     c \in {"", "USD"}, o \in {"", "Sale"}, l \in {0}}
  \cup {[NoQuery EXCEPT !.limit = 1]}

FilterQueries ==
  {[w EXCEPT !.currency_code = c, !.operation_type = o] :
     w \in Windows, c \in {"", "USD"}, o \in {"", "Sale"}}
  \cup {NoQuery, [Window(0, MaxTime) EXCEPT !.bad = {"to_date"}]}

AnalyticsQueries ==
  Windows
  \cup {[Window(0, MaxTime) EXCEPT !.currency_code = c] : c \in {"ALL", "USD"}}
  \cup MalformedWindows

(* ------------------------------- state --------------------------------- *)
Db == [currencies |-> currencies, history |-> history, users |-> users]

\* the primary keys a request may name: every key present and one absent key
Ids(rows) == 1..NextId(rows)

\* the largest identifier a ledger entry has carried so far (a history
\* variable of the model: SQLite keeps no such counter for this table)
Issued(before, rows) == Max({before} \cup {h.id : h \in rows})

Apply(r, data) ==
  /\ served < MaxRequests
  /\ served' = served + 1
  /\ currencies' = r.db.currencies
  /\ history' = r.db.history
  /\ users' = r.db.users
  /\ request' = data
  /\ response' = r.resp
  /\ answer' = NoAnswer
  /\ assigned' = Issued(assigned, r.db.history)
  /\ now' = now
  /\ UNCHANGED <<inflight, base, batch>>

Workers == 1..NumWorkers

\* a request between its reads and its commit: the rows its session will
\* write (UPDATE ... WHERE id = ?), the time it read the clock
Idle ==
  [pc |-> "idle", n |-> 0, code |-> "", data |-> NoRequest, writes |-> {},
   adds_som |-> FALSE, t |-> 0]

Init ==
  /\ now = 0
  /\ served = 0
  /\ currencies = initialise(EmptyDb, 0).currencies
  /\ history = {}
  /\ users = initialise(EmptyDb, 0).users
  /\ request = NoRequest
  /\ response = Reply("start", 200, "", NoEntry)
  /\ answer = NoAnswer
  /\ assigned = 0
  /\ inflight = [w \in Workers |-> Idle]
  /\ base = EmptyDb
  /\ batch = {}

Tick ==
  /\ now < MaxTime
  /\ now' = now + 1
  /\ UNCHANGED <<currencies, history, users, served, request, response,
                 answer, assigned, inflight, base, batch>>

Exchange ==
  \E data \in ExchangeRequests, commit_fails \in BOOLEAN :
    Apply(exchange(Db, now, data, commit_fails), data)

UpdateCurrencyQuantity ==
  \E code \in Codes, data \in QuantityPayloads :
    Apply(update_currency_quantity(Db, now, code, data), NoRequest)

CreateCurrency ==
  \E data \in CreateCurrencyPayloads :
    Apply(create_currency(Db, now, data), NoRequest)

UpdateCurrency ==
  \E id \in Ids(currencies), data \in UpdateCurrencyPayloads :
    Apply(update_currency(Db, now, id, data), NoRequest)

DeleteCurrency ==
  \E id \in Ids(currencies) : Apply(delete_currency(Db, id), NoRequest)

CreateHistory ==
  \E data \in CreateHistoryPayloads :
    Apply(create_history(Db, now, data), NoRequest)

UpdateHistory ==
  \E id \in Ids(history), data \in UpdateHistoryPayloads :
    Apply(update_history(Db, id, data), NoRequest)

DeleteHistory ==
  \E id \in Ids(history) : Apply(delete_history(Db, id), NoRequest)

CreateUser ==
  \E data \in CreateUserPayloads : Apply(create_user(Db, data), NoRequest)

UpdateUser ==
  \E id \in Ids(users), data \in UpdateUserPayloads :
    Apply(update_user(Db, id, data), NoRequest)

DeleteUser ==
  \E id \in Ids(users) : Apply(delete_user(Db, id), NoRequest)

ResetData ==
  \E commit_fails \in BOOLEAN :
    Apply(reset_data(Db, now, commit_fails), NoRequest)

\* the process is started again on the existing store
Restart ==
  Apply([db |-> initialise(Db, now), resp |-> Reply("start", 200, "", NoEntry)],
        NoRequest)

Next ==
  \/ Tick
  \/ Exchange
  \/ UpdateCurrencyQuantity
  \/ CreateCurrency
  \/ UpdateCurrency
  \/ DeleteCurrency
  \/ CreateHistory
  \/ UpdateHistory
  \/ DeleteHistory
  \/ CreateUser
  \/ UpdateUser
  \/ DeleteUser
  \/ ResetData
  \/ Restart

Spec == Init /\ [][Next]_vars

(* ------------------------------ read handlers -------------------------- *)
\* a GET handler answers with data and changes no table
Read(op, r) ==
  /\ served < MaxRequests
  /\ served' = served + 1
  /\ request' = NoRequest
  /\ response' = Reply(op, r.status, r.error, NoEntry)
  /\ answer' = r.data
  /\ UNCHANGED <<currencies, history, users, now, assigned, inflight, base,
                 batch>>

GetHistory ==
  \E args \in HistoryQueries : Read("get_history", get_history(Db, args))

FilterHistory ==
  \E args \in FilterQueries : Read("filter_history", filter_history(Db, args))

DailyData ==
  \E args \in AnalyticsQueries, query_fails \in BOOLEAN :
    Read("daily_data", daily_data(Db, args, query_fails))

PieChartData ==
  \E args \in AnalyticsQueries, query_fails \in BOOLEAN :
    Read("pie_chart_data", pie_chart_data(Db, args, query_fails))

ProfitableCurrencies ==
  \E args \in AnalyticsQueries, query_fails \in BOOLEAN :
    Read("profitable_currencies", profitable_currencies(Db, args, query_fails))

BatchAnalyticsData ==
  \E args \in AnalyticsQueries, fails \in {{}} \cup {{slot} : slot \in Slots} :
    Read("batch_analytics_data", batch_analytics_data(Db, args, fails))

\* the ledger, the currencies it names and the handlers that read them
NextQueries ==
  \/ Tick
  \/ Exchange
  \/ UpdateCurrencyQuantity
  \/ CreateCurrency
  \/ UpdateCurrency
  \/ DeleteCurrency
  \/ CreateHistory
  \/ UpdateHistory
  \/ DeleteHistory
  \/ ResetData
  \/ GetHistory
  \/ FilterHistory
  \/ DailyData
  \/ PieChartData
  \/ ProfitableCurrencies
  \/ BatchAnalyticsData

SpecQueries == Init /\ [][NextQueries]_vars

(* ------------------- requests served at the same time ------------------ *)
\* The development server is threaded and every request has its own session.
\* A handler's SELECTs run outside any transaction; its UPDATE/INSERT/DELETE
\* statements run at flush inside one transaction that SQLite serialises.  A
\* handler is therefore two steps, its reads and its commit.
Quiescent == \A w \in Workers : inflight[w].pc = "idle"

Served(n, kind, code, data) == [n |-> n, kind |-> kind, code |-> code, data |-> data]

\* requests overlapping in time form a batch that starts on a quiescent store
Begin(db) ==
  /\ served < MaxRequests
  /\ served' = served + 1
  /\ base' = IF Quiescent THEN db ELSE base
  /\ now' = now
  /\ answer' = answer
  /\ assigned' = assigned

Batch == IF Quiescent THEN {} ELSE batch

\* the columns a session changed, as the flush writes them: only changed
\* attributes appear in UPDATE currency SET ... WHERE id = ?
Writes(before, after) ==
  UNION {LET b == First(ById(before, c.id))
         IN  {[id |-> c.id, column |-> "quantity", value |-> c.quantity] :
                x \in IF b.quantity # c.quantity THEN {1} ELSE {}}
             \cup
             {[id |-> c.id, column |-> "updated_at", value |-> c.updated_at] :
                x \in IF b.updated_at # c.updated_at THEN {1} ELSE {}}
           : c \in after \ before}

Written(c, writes, column, old) ==
  IF \E w \in writes : w.id = c.id /\ w.column = column
  THEN (CHOOSE w \in writes : w.id = c.id /\ w.column = column).value
  ELSE old

Flush(rows, writes) ==
  {[c EXCEPT !.quantity = Written(c, writes, "quantity", @),
             !.updated_at = Written(c, writes, "updated_at", @)] : c \in rows}

\* an UPDATE that matches no row raises StaleDataError
Stale(rows, writes) == \E w \in writes : ById(rows, w.id) = {}

Answer(w, r, data) ==
  /\ response' = r
  /\ request' = data
  /\ inflight' = [inflight EXCEPT ![w] = Idle]

ReadExchange(w) ==
  \E data \in ConcurrentExchanges :
    LET r == exchange(Db, now, data, FALSE)
    IN  /\ inflight[w].pc = "idle"
        /\ Begin(Db)
        /\ UNCHANGED <<currencies, history, users>>
        /\ IF r.resp.status # 200
           THEN /\ Answer(w, r.resp, data)
                /\ batch' = Batch
           ELSE /\ inflight' = [inflight EXCEPT ![w] =
                     [pc |-> "exchange", n |-> served', code |-> data.currency_code,
                      data |-> data,
                      writes |-> Writes(currencies, r.db.currencies),
                      adds_som |-> FALSE, t |-> now]]
                /\ batch' = Batch
                /\ UNCHANGED <<request, response>>

CommitExchange(w) ==
  LET f == inflight[w]
      new_entry == History(NextId(history), f.data.currency_code,
                           f.data.operation_type, f.data.rate, f.data.quantity,
                           f.data.total, f.t)
  IN  /\ f.pc = "exchange"
      /\ UNCHANGED <<users, now, served, base, answer>>
      /\ IF Stale(currencies, f.writes)
         THEN /\ Answer(w, Reply("exchange", 500, "StaleDataError", NoEntry), f.data)
              /\ UNCHANGED <<currencies, history, batch>>
         ELSE /\ currencies' = Flush(currencies, f.writes)
              /\ history' = history \cup {new_entry}
              /\ batch' = batch \cup {Served(f.n, "exchange", f.code, f.data)}
              /\ Answer(w, Reply("exchange", 200, "", new_entry), f.data)
      /\ assigned' = Issued(assigned, history')

ReadQuantity(w) ==
  \E code \in {"SOM", "USD"}, data \in QuantityPayloads :
    LET r == update_currency_quantity(Db, now, code, data)
    IN  /\ inflight[w].pc = "idle"
        /\ Begin(Db)
        /\ UNCHANGED <<currencies, history, users>>
        /\ batch' = Batch
        /\ IF r.resp.status # 200
           THEN Answer(w, r.resp, NoRequest)
           ELSE /\ inflight' = [inflight EXCEPT ![w] =
                     [pc |-> "quantity", n |-> served', code |-> code, data |-> data,
                      writes |-> Writes(currencies, r.db.currencies),
                      adds_som |-> FALSE, t |-> now]]
                /\ UNCHANGED <<request, response>>

CommitQuantity(w) ==
  LET f == inflight[w]
  IN  /\ f.pc = "quantity"
      /\ UNCHANGED <<history, users, now, served, base, answer>>
      /\ assigned' = Issued(assigned, history')
      /\ IF Stale(currencies, f.writes)
         THEN /\ Answer(w, Reply("update_currency_quantity", 500,
                                 "StaleDataError", NoEntry), NoRequest)
              /\ UNCHANGED <<currencies, batch>>
         ELSE /\ currencies' = Flush(currencies, f.writes)
              /\ batch' = batch \cup {Served(f.n, "quantity", f.code, f.data)}
              /\ Answer(w, Reply("update_currency_quantity", 200, "", NoEntry),
                        NoRequest)

\* reset_data reads SOM first; everything after its first DELETE runs inside
\* the write transaction
ReadReset(w) ==
  LET soms == ByCode(currencies, "SOM")
  IN  /\ inflight[w].pc = "idle"
      /\ Begin(Db)
      /\ batch' = Batch
      /\ inflight' = [inflight EXCEPT ![w] =
           [pc |-> "reset", n |-> served', code |-> "", data |-> NoRequest,
            writes |-> Writes(soms, {[c EXCEPT !.quantity = 0] : c \in soms}),
            adds_som |-> soms = {}, t |-> now]]
      /\ UNCHANGED <<currencies, history, users, request, response>>

CommitReset(w) ==
  LET f == inflight[w]
      added == IF f.adds_som
               THEN {Currency(NextId(currencies), "SOM", 0, f.t, 0, 0)}
               ELSE {}
  IN  /\ f.pc = "reset"
      /\ UNCHANGED <<now, served, base, answer>>
      /\ IF Stale(currencies, f.writes)
         THEN /\ Answer(w, Reply("reset_data", 500, "StaleDataError", NoEntry),
                        NoRequest)
              /\ UNCHANGED <<currencies, history, users, batch>>
         \* code is UNIQUE: another request has created SOM meanwhile
         ELSE IF f.adds_som /\ ByCode(currencies, "SOM") # {}
         THEN /\ Answer(w, Reply("reset_data", 500, "IntegrityError", NoEntry),
                        NoRequest)
              /\ UNCHANGED <<currencies, history, users, batch>>
         ELSE /\ currencies' = ByCode(Flush(currencies, f.writes), "SOM") \cup added
              /\ history' = {}
              /\ users' = ByUsername(users, "a")
              /\ batch' = batch \cup {Served(f.n, "reset", "", NoRequest)}
              /\ Answer(w, Reply("reset_data", 200, "", NoEntry), NoRequest)
      /\ assigned' = Issued(assigned, history')

\* a currency is created while no other request is in flight
CreateCurrencyAlone ==
  /\ Quiescent
  /\ CreateCurrency

NextConcurrent ==
  \/ \E w \in Workers : ReadExchange(w)
  \/ \E w \in Workers : CommitExchange(w)
  \/ \E w \in Workers : ReadQuantity(w)
  \/ \E w \in Workers : CommitQuantity(w)
  \/ \E w \in Workers : ReadReset(w)
  \/ \E w \in Workers : CommitReset(w)
  \/ CreateCurrencyAlone

SpecConcurrent == Init /\ [][NextConcurrent]_vars

(* ------------------------------ properties ----------------------------- *)
Quantity(rows, code) == First(ByCode(rows, code)).quantity

\* this step served an exchange request
ExchangeStep == response'.op = "exchange" /\ served' = served + 1

Completed(resp) == resp.error # "commit failed"

ValidAmounts(r) ==
  /\ r.has = ExchangeKeys
  /\ r.bad = {}
  /\ r.rate > 0 /\ r.quantity > 0 /\ r.total > 0
  /\ r.total = Round2(r.rate, r.quantity)

ValidPurchase(r, rows) ==
  /\ ValidAmounts(r)
  /\ r.operation_type = "Purchase"
  /\ ByCode(rows, r.currency_code) # {}
  /\ ByCode(rows, "SOM") # {}
  /\ Quantity(rows, "SOM") >= r.total

ValidSale(r, rows) ==
  /\ ValidAmounts(r)
  /\ r.operation_type = "Sale"
  /\ ByCode(rows, r.currency_code) # {}
  /\ ByCode(rows, "SOM") # {}
  /\ Quantity(rows, r.currency_code) >= r.quantity

Matches(e, r) ==
  /\ e.currency_code = r.currency_code
  /\ e.operation_type = r.operation_type
  /\ e.rate = r.rate
  /\ e.quantity = r.quantity
  /\ e.total = r.total

\* the ledger gained exactly one entry, and it carries the request's fields
OneNewEntry(before, after, r) ==
  /\ before \subseteq after
  /\ Cardinality(after \ before) = 1
  /\ \A e \in after \ before : Matches(e, r)

PurchaseMoved(before, after, r) ==
  /\ Quantity(after, "SOM") = Quantity(before, "SOM") - r.total
  /\ Quantity(after, r.currency_code) =
       Quantity(before, r.currency_code) + r.quantity

SaleMoved(before, after, r) ==
  /\ Quantity(after, r.currency_code) =
       Quantity(before, r.currency_code) - r.quantity
  /\ Quantity(after, "SOM") = Quantity(before, "SOM") + r.total

\* C1 as stated: every valid Purchase, for every currency code that has a
\* record (SOM included), takes total from SOM, adds quantity to the named
\* currency and appends one matching ledger entry.
C1_PurchaseAnyCode ==
  [][(ExchangeStep /\ Completed(response') /\ ValidPurchase(request', currencies))
       => /\ response'.status = 200
          /\ PurchaseMoved(currencies, currencies', request')
          /\ OneNewEntry(history, history', request')]_vars

\* C1 amended: the same for every named currency other than SOM; a valid
\* Purchase that names SOM itself moves the one SOM record by
\* quantity - total and appends the matching entry.
C1_PurchaseForeignCode ==
  [][(ExchangeStep /\ Completed(response') /\ ValidPurchase(request', currencies))
       => /\ response'.status = 200
          /\ OneNewEntry(history, history', request')
          /\ IF request'.currency_code # "SOM"
             THEN PurchaseMoved(currencies, currencies', request')
             ELSE Quantity(currencies', "SOM") =
                    Quantity(currencies, "SOM") - request'.total
                      + request'.quantity]_vars

\* a Purchase of a foreign currency has succeeded and spent all of SOM
C1_Witness ==
  /\ response.op = "exchange" /\ response.status = 200
  /\ request.operation_type = "Purchase"
  /\ request.currency_code # "SOM"
  /\ ByCode(currencies, "SOM") # {}
  /\ Quantity(currencies, "SOM") = 0

\* C2 as stated: every valid Sale, for every currency code that has a record
\* (SOM included), takes quantity from the named currency, adds total to SOM
\* and appends one matching ledger entry.
C2_SaleAnyCode ==
  [][(ExchangeStep /\ Completed(response') /\ ValidSale(request', currencies))
       => /\ response'.status = 200
          /\ SaleMoved(currencies, currencies', request')
          /\ OneNewEntry(history, history', request')]_vars

\* C2 amended: the same for every named currency other than SOM; a valid Sale
\* that names SOM itself moves the one SOM record by total - quantity and
\* appends the matching entry.
C2_SaleForeignCode ==
  [][(ExchangeStep /\ Completed(response') /\ ValidSale(request', currencies))
       => /\ response'.status = 200
          /\ OneNewEntry(history, history', request')
          /\ IF request'.currency_code # "SOM"
             THEN SaleMoved(currencies, currencies', request')
             ELSE Quantity(currencies', "SOM") =
                    Quantity(currencies, "SOM") - request'.quantity
                      + request'.total]_vars

\* a Sale of a foreign currency has succeeded and sold all of it
C2_Witness ==
  /\ response.op = "exchange" /\ response.status = 200
  /\ request.operation_type = "Sale"
  /\ request.currency_code # "SOM"
  /\ ByCode(currencies, request.currency_code) # {}
  /\ Quantity(currencies, request.currency_code) = 0

\* C3: an exchange request that is answered with an error leaves every
\* currency record and every ledger entry as it was.
C3_RejectedChangesNothing ==
  [][(ExchangeStep /\ response'.status # 200)
       => (currencies' = currencies /\ history' = history)]_vars

\* a Purchase was refused for lack of SOM while SOM held a positive amount
C3_Witness ==
  /\ response.op = "exchange" /\ response.status = 400
  /\ response.error = "Not enough SOM for purchase"
  /\ ByCode(currencies, "SOM") # {}
  /\ Quantity(currencies, "SOM") > 0

\* C4 as stated: no currency ever has a negative quantity.
C4_NonNegative == \A c \in currencies : c.quantity >= 0

\* C5 as stated: exactly one currency record has the code SOM.
C5_OneSom == Cardinality(ByCode(currencies, "SOM")) = 1

\* the quantity change an accepted request makes to the record with this code
Delta(r, code) ==
  (IF code # "SOM" THEN 0
   ELSE IF r.operation_type = "Purchase" THEN 0 - r.total ELSE r.total)
  + (IF code # r.currency_code THEN 0
     ELSE IF r.operation_type = "Purchase" THEN r.quantity ELSE 0 - r.quantity)

\* C6: an exchange step either changes nothing and answers with an error, or
\* moves both balances and appends the matching ledger entry, all together.
C6_AllOrNothing ==
  [][ExchangeStep
       => \/ /\ response'.status # 200
             /\ currencies' = currencies
             /\ history' = history
          \/ /\ response'.status = 200
             /\ OneNewEntry(history, history', request')
             /\ currencies' =
                  {[c EXCEPT !.quantity = @ + Delta(request', c.code)] :
                     c \in currencies}]_vars

\* the commit of an otherwise acceptable exchange has failed
C6_Witness ==
  /\ response.op = "exchange" /\ response.status = 500
  /\ response.error = "commit failed"

\* C8 as stated: a valid Purchase that names a code without a record, with
\* enough SOM, succeeds and leaves the new currency at the requested quantity.
C8_UnknownCodeCreated ==
  [][(/\ ExchangeStep /\ Completed(response')
      /\ ValidAmounts(request')
      /\ request'.operation_type = "Purchase"
      /\ ByCode(currencies, request'.currency_code) = {}
      /\ ByCode(currencies, "SOM") # {}
      /\ Quantity(currencies, "SOM") >= request'.total)
       => /\ response'.status = 200
          /\ ByCode(currencies', request'.currency_code) # {}
          /\ Quantity(currencies', request'.currency_code) = request'.quantity]_vars

Credentials(rows) ==
  {[username |-> u.username, password |-> u.password, role |-> u.role] : u \in rows}

\* C9 as stated: after a reset the ledger is empty, SOM at 0 is the only
\* currency and the default administrator is the only credential.
C9_ResetRestoresDefaults ==
  (response.op = "reset_data" /\ response.status = 200)
    => /\ history = {}
       /\ {[code |-> c.code, quantity |-> c.quantity] : c \in currencies}
            = {[code |-> "SOM", quantity |-> 0]}
       /\ Cardinality(currencies) = 1
       /\ Cardinality(users) = 1
       /\ Credentials(users)
            = {[username |-> "a", password |-> "a", role |-> "admin"]}

\* what C10 compares: codes with quantities and default rates, the ledger,
\* the credentials
Observable(db) ==
  [currencies |-> {[code |-> c.code, quantity |-> c.quantity,
                    default_buy_rate |-> c.default_buy_rate,
                    default_sell_rate |-> c.default_sell_rate] :
                     c \in db.currencies},
   history |-> db.history,
   users |-> Credentials(db.users)]

Reset(db) == reset_data(db, now, FALSE).db

\* C10: from every reachable state a second reset yields what the first one
\* yielded, and a state a reset has just produced is not changed by another.
C10_ResetIdempotent ==
  /\ Observable(Reset(Reset(Db))) = Observable(Reset(Db))
  /\ (response.op = "reset_data" /\ response.status = 200)
       => Observable(Reset(Db)) = Observable(Db)

\* a reset has been applied after other requests were served
C10_Witness ==
  /\ response.op = "reset_data" /\ response.status = 200
  /\ served >= 3

\* the committed requests of a batch, served one after the other
Serve(db, e) ==
  IF e.kind = "exchange" THEN exchange(db, now, e.data, FALSE).db
  ELSE IF e.kind = "quantity"
  THEN update_currency_quantity(db, now, e.code, e.data).db
  ELSE reset_data(db, now, FALSE).db

RECURSIVE RunSerial(_, _)
RunSerial(db, order) ==
  IF order = <<>> THEN db ELSE RunSerial(Serve(db, Head(order)), Tail(order))

RECURSIVE Orders(_)
Orders(S) ==
  IF S = {} THEN {<<>>}
  ELSE UNION {{<<e>> \o o : o \in Orders(S \ {e})} : e \in S}

Balances(db) ==
  [currencies |-> {[code |-> c.code, quantity |-> c.quantity] : c \in db.currencies},
   entries |-> Cardinality(db.history),
   ledger |-> {[currency_code |-> h.currency_code,
                operation_type |-> h.operation_type, rate |-> h.rate,
                quantity |-> h.quantity, total |-> h.total] : h \in db.history}]

\* C7 as stated: once the overlapping requests have all been answered, the
\* balances and the ledger are those some serial order of the committed
\* requests produces from the state the batch started in.
C7_Serializable ==
  (/\ Quiescent
   /\ batch # {}
   /\ response.op \in {"exchange", "update_currency_quantity", "reset_data"})
    => \E order \in Orders(batch) :
         Balances(RunSerial(base, order)) = Balances(Db)

(* --------------------------- ledger and queries ------------------------ *)
Range(seq) == {seq[i] : i \in 1..Len(seq)}

\* the history queries whose filters are well-formed, without a limit
NoLimit ==
  {[NoQuery EXCEPT !.currency_code = c, !.operation_type = o] :
     c \in {""} \cup Codes, o \in {""} \cup OperationTypes}

Ranged ==
  {[q EXCEPT !.has = {"from_date", "to_date"}, !.from_date = f, !.to_date = t] :
     q \in NoLimit, f \in 0..MaxTime, t \in 0..MaxTime}

\* the filters of a query match an entry
MatchesFilters(q, e) ==
  /\ q.currency_code \in {"", e.currency_code}
  /\ q.operation_type \in {"", e.operation_type}
  /\ "from_date" \in q.has => q.from_date <= e.created_at /\ e.created_at <= q.to_date

\* what a history query returns from a ledger
Returned(rows, q) ==
  IF "from_date" \in q.has THEN filter_history([history |-> rows], q).data
  ELSE get_history([history |-> rows], q).data

Without(seq, e) == SelectSeq(seq, LAMBDA x : x # e)

Appended ==
  /\ served' = served + 1
  /\ \/ response'.op = "create_history" /\ response'.status = 201
     \/ response'.op = "exchange" /\ response'.status = 200

Deleted ==
  /\ served' = served + 1
  /\ response'.op = "delete_history"
  /\ response'.status = 200

\* C11: an entry appended by the admin insert or by an exchange is returned by
\* every history query whose filters match it; once it is deleted by id no
\* query returns it and every query returns the other entries as before
C11_RoundTrip ==
  [][/\ Appended =>
          /\ history' \ history # {}
          /\ \A e \in history' \ history : \A q \in NoLimit \cup Ranged :
               MatchesFilters(q, e) => e \in Range(Returned(history', q))
     /\ Deleted =>
          /\ history \ history' # {}
          /\ \A e \in history \ history' : \A q \in NoLimit \cup Ranged :
               /\ e \notin Range(Returned(history', q))
               /\ Returned(history', q) = Without(Returned(history, q), e)]_vars

\* an entry was deleted from a ledger that holds another one
C11_Witness ==
  /\ response.op = "delete_history"
  /\ response.status = 200
  /\ history # {}

(* ------------------------------ C12 .. C20 ----------------------------- *)
\* a field of the exchange request is absent, not a number, or not positive
Malformed(r) ==
  \/ ~(ExchangeKeys \subseteq r.has)
  \/ r.bad \cap {"rate", "quantity", "total"} # {}
  \/ r.rate <= 0 \/ r.quantity <= 0 \/ r.total <= 0

\* C12 as stated: an exchange request with an absent field, or with a rate,
\* quantity or total that is not a number or not positive, is answered by
\* the handler with the missing-parameter or the invalid-amount error (400)
\* and changes nothing
C12_MalformedRejected ==
  [][(ExchangeStep /\ Malformed(request')) =>
       /\ response'.status = 400
       /\ response'.error \in {"Required fields missing", "Invalid numbers"}
       /\ currencies' = currencies
       /\ history' = history]_vars

\* this step served the create-currency request carrying data
CreateCurrencyServed(data) ==
  /\ served' = served + 1
  /\ response' = create_currency(Db, now, data).resp
  /\ currencies' = create_currency(Db, now, data).db.currencies

Kept(field, data, old, c) ==
  c[field] = IF field \in data.has THEN data[field]
             ELSE IF old = {} THEN 0
             ELSE First(old)[field]

\* one record carries the code: the record that carried it before, with the
\* supplied fields set and the omitted ones kept, or a new record whose
\* omitted numeric fields are 0
Upserted(before, after, data) ==
  /\ Cardinality(ByCode(after, data.code)) = 1
  /\ \A c \in ByCode(after, data.code) :
       /\ ByCode(before, data.code) # {} => c.id = First(ByCode(before, data.code)).id
       /\ \A field \in {"quantity", "default_buy_rate", "default_sell_rate"} :
            Kept(field, data, ByCode(before, data.code), c)

\* C13 as stated: a create-currency request that carries a code succeeds
\* whether or not a currency with that code exists, and leaves exactly one
\* record with that code, updated or created from the supplied fields
C13_Upsert ==
  [][\A data \in CreateCurrencyPayloads :
       ("code" \in data.has /\ CreateCurrencyServed(data)) =>
          /\ response'.status \in {200, 201}
          /\ Upserted(currencies, currencies', data)]_vars

\* the operations that may change or remove an existing ledger entry
LedgerAdmin == {"update_history", "delete_history", "reset_data"}

\* C14: only the history update and delete by id and the reset change or
\* remove an existing ledger entry; every other request leaves each existing
\* entry as it was, an accepted exchange and an admin insert only adding one
\* entry and every other request adding none
C14_LedgerKept ==
  [][(served' = served + 1 /\ response'.op \notin LedgerAdmin) =>
       /\ history \subseteq history'
       /\ response'.op = "exchange" =>
            Cardinality(history' \ history) = IF response'.status = 200 THEN 1 ELSE 0
       /\ response'.op \notin {"exchange", "create_history"} => history' = history]_vars

\* an exchange was accepted on a ledger that already held an entry
C14_Witness ==
  /\ response.op = "exchange"
  /\ response.status = 200
  /\ Cardinality(history) >= 2

\* this step served the batch request with these arguments, the queries of
\* the sub-handlers in fails raising
BatchServed(args, fails) ==
  /\ served' = served + 1
  /\ response'.op = "batch_analytics_data"
  /\ response'.status = batch_analytics_data(Db, args, fails).status
  /\ answer' = batch_analytics_data(Db, args, fails).data

\* C15 as stated: when a sub-computation of the batch fails, its slot alone
\* carries the empty default and every other slot the data of its handler
C15_PerSlot ==
  [][\A args \in AnalyticsQueries, fails \in SUBSET Slots :
       (date_range(args) = "" /\ BatchServed(args, fails)) =>
          /\ answer'.pieChartData =
               IF "pie_chart_data" \in fails THEN EmptyBatch.pieChartData
               ELSE pie_chart_data(Db, args, FALSE).data
          /\ answer'.profitData =
               IF "profitable_currencies" \in fails THEN EmptyBatch.profitData
               ELSE profitable_currencies(Db, args, FALSE).data
          /\ answer'.barChartData =
               IF "daily_data" \in fails THEN EmptyBatch.barChartData
               ELSE daily_data(Db, args, FALSE).data]_vars

\* this step served a read request of handler op that answered r
ReadServed(op, r) ==
  /\ served' = served + 1
  /\ response' = Reply(op, r.status, r.error, NoEntry)
  /\ answer' = r.data

\* the answer is the date-range error
InvalidDateRange(r) ==
  /\ r.status = 400
  /\ r.error \in {"Both from_date and to_date are required", "Invalid date format"}

\* C16 as stated: each analytics handler and the batch, called with a date
\* bound that is absent or not a date, answers the date-range error (400)
\* and never a success
C16_InvalidDateRange ==
  [][\A args \in MalformedWindows :
       /\ ReadServed("daily_data", daily_data(Db, args, FALSE)) =>
            InvalidDateRange(daily_data(Db, args, FALSE))
       /\ ReadServed("pie_chart_data", pie_chart_data(Db, args, FALSE)) =>
            InvalidDateRange(pie_chart_data(Db, args, FALSE))
       /\ ReadServed("profitable_currencies", profitable_currencies(Db, args, FALSE)) =>
            InvalidDateRange(profitable_currencies(Db, args, FALSE))
       /\ ReadServed("batch_analytics_data", batch_analytics_data(Db, args, {})) =>
            InvalidDateRange(batch_analytics_data(Db, args, {}))]_vars

\* the foreign codes with a Purchase or Sale entry inside the window
TradedCodes(rows, args) ==
  {h.currency_code : h \in {e \in rows : /\ e.currency_code # "SOM"
                                         /\ e.operation_type \in {"Purchase", "Sale"}
                                         /\ args.from_date <= e.created_at
                                         /\ e.created_at <= args.to_date}}

\* C17 as stated: the ranking has exactly one row for each foreign code with
\* a Purchase or Sale entry inside the window and no other row, each row's
\* profit is (average sale rate - average purchase rate) * quantity sold,
\* and the rows are ordered by profit, largest first
C17_RowPerTradedCode ==
  [][\A args \in AnalyticsQueries :
       (/\ date_range(args) = ""
        /\ ReadServed("profitable_currencies", profitable_currencies(Db, args, FALSE))) =>
          /\ {answer'[i].currency_code : i \in 1..Len(answer')} = TradedCodes(history, args)
          /\ \A i, j \in 1..Len(answer') :
               /\ i # j => answer'[i].currency_code # answer'[j].currency_code
               /\ i < j => answer'[i].profit >= answer'[j].profit
          /\ \A i \in 1..Len(answer') :
               answer'[i].profit =
                 ((answer'[i].avg_sale_rate - answer'[i].avg_purchase_rate)
                    * answer'[i].total_sold) \div Unit]_vars

\* C18 as stated: every ledger entry is a Purchase or a Sale and its rate,
\* quantity and total are positive
C18_ValidEntries ==
  \A h \in history :
    /\ h.operation_type \in {"Purchase", "Sale"}
    /\ h.rate > 0
    /\ h.quantity > 0
    /\ h.total > 0

\* total is rate * quantity to the nearest hundredth: a multiple of 0.01 at
\* most half a hundredth away from the product (amounts in thousandths, the
\* product in millionths)
NearestHundredth(total, rate, quantity) ==
  /\ total % 10 = 0
  /\ rate * quantity - 1000 * total <= 5000
  /\ 1000 * total - rate * quantity <= 5000

Numeric(r) ==
  /\ ExchangeKeys \subseteq r.has
  /\ r.bad = {}
  /\ r.rate > 0 /\ r.quantity > 0 /\ r.total > 0

\* C19: an exchange is accepted only when total is rate * quantity rounded
\* to two decimal places; a request with positive numbers is rejected with
\* the mismatch error exactly when its total is any other value; the entry
\* an accepted exchange writes has such a total
C19_TotalChecked ==
  [][ExchangeStep =>
       /\ response'.status = 200 =>
            /\ Numeric(request')
            /\ NearestHundredth(request'.total, request'.rate, request'.quantity)
            /\ history' # history
            /\ \A e \in history' \ history :
                 NearestHundredth(e.total, e.rate, e.quantity)
       /\ Numeric(request') =>
            ((/\ response'.status = 400
              /\ response'.error = "Total does not match rate * quantity")
             <=> ~NearestHundredth(request'.total, request'.rate, request'.quantity))]_vars

\* an exchange was accepted whose total is the product rounded up
C19_Witness ==
  /\ response.op = "exchange"
  /\ response.status = 200
  /\ request.rate * request.quantity # 1000 * request.total
  /\ \E e \in history : e.total = request.total /\ e.rate = request.rate

\* C20 as stated: a request that changes the quantity of a currency record
\* sets the record's updated_at to the time of the request, so no record has
\* an updated_at earlier than its last quantity change
C20_UpdatedAtFollowsQuantity ==
  [][\A c \in currencies' : \A o \in currencies :
       (served' = served + 1 /\ o.id = c.id /\ o.quantity # c.quantity) =>
          c.updated_at = now']_vars

(* ------------------------------ C21 .. C24 ----------------------------- *)
\* C21 as stated: the entry an administrative insert or an exchange appends
\* carries an identifier greater than every identifier a ledger entry has
\* carried before, deleted and reset entries included
C21_IdsNeverReused ==
  [][Appended => \A e \in history' \ history : e.id > assigned]_vars

NonNegative(rows) == \A c \in rows : c.quantity >= 0

\* C22: an exchange request served on a store whose quantities are all
\* >= 0, accepted or rejected, Purchase or Sale, whichever currency it names
\* (SOM included), leaves every quantity >= 0; so does every sequence of such
\* requests
C22_ExchangeKeepsNonNegative ==
  [][(ExchangeStep /\ NonNegative(currencies)) => NonNegative(currencies')]_vars

\* an exchange naming SOM itself was accepted on a store without a negative
\* quantity
C22_Witness ==
  /\ response.op = "exchange"
  /\ response.status = 200
  /\ request.currency_code = "SOM"
  /\ NonNegative(currencies)
  /\ \E c \in currencies : c.quantity > 0

\* the store with every default rate set to 0
WithoutDefaultRates(db) ==
  [db EXCEPT !.currencies =
     {[c EXCEPT !.default_buy_rate = 0, !.default_sell_rate = 0] : c \in @}]

\* the record is as before except, for the operands, for its quantity
SameButQuantity(c, d, operands) ==
  /\ d.id = c.id
  /\ d.code = c.code
  /\ d.default_buy_rate = c.default_buy_rate
  /\ d.default_sell_rate = c.default_sell_rate
  /\ d.updated_at = c.updated_at
  /\ c.code \notin operands => d.quantity = c.quantity

\* C23: an accepted exchange changes only the quantity of the named currency,
\* the quantity of SOM and the ledger, which gains one entry: every currency
\* record keeps its code and default rates, every other record its quantity,
\* no record is added or removed, the users are unchanged, and the request is
\* accepted whatever the default rates are
C23_ExchangeFrame ==
  [][(ExchangeStep /\ response'.status = 200) =>
       /\ users' = users
       /\ Cardinality(currencies') = Cardinality(currencies)
       /\ \A c \in currencies : \E d \in currencies' :
            SameButQuantity(c, d, {"SOM", request'.currency_code})
       /\ OneNewEntry(history, history', request')
       /\ exchange(WithoutDefaultRates(Db), now, request', FALSE).resp.status = 200]_vars

\* an exchange was accepted at a rate that is not the default rate of the
\* named currency for that operation
C23_Witness ==
  /\ response.op = "exchange"
  /\ response.status = 200
  /\ \E c \in currencies :
       /\ c.code = request.currency_code
       /\ c.code # "SOM"
       /\ \/ /\ request.operation_type = "Sale"
             /\ c.default_sell_rate \notin {0, request.rate}
          \/ /\ request.operation_type = "Purchase"
             /\ c.default_buy_rate \notin {0, request.rate}

\* this step started the server on the existing store
StartStep == response'.op = "start" /\ served' = served + 1

\* C24 as stated: a start on an existing store leaves SOM's quantity, every
\* currency record and every ledger entry as they were; it only adds SOM at
\* 0 and the default admin user when they are absent
C24_StartPreserves ==
  [][StartStep =>
       /\ currencies \subseteq currencies'
       /\ history' = history
       /\ users \subseteq users'
       /\ \A c \in currencies' \ currencies :
            c.code = "SOM" /\ c.quantity = 0 /\ ByCode(currencies, "SOM") = {}
       /\ \A u \in users' \ users :
            u.username = "a" /\ ByUsername(users, "a") = {}]_vars

====
